---- MODULE Spec2Model ----
(***************************************************************************)
(* The asynchronous request / poll / collect workflow of                   *)
(* Text-Summarization-HuggingFace-Async-Inference.ipynb: the two bulk      *)
(* invocation cells ("Trigger 10 ..." and "Trigger 1000 ..."), the         *)
(* get_output poll loop, and the two external collaborators they talk to   *)
(* (the asynchronous inference service and the object store).              *)
(***************************************************************************)
EXTENDS Integers, Sequences, FiniteSets, TLC

VARIABLES
    stops,       \* stops[c]: the stop argument of range(1, stop) in bulk cell c
    cell,        \* the bulk cell run last (0: none yet)
    cellState,   \* cellState[c]: "notrun", "running", "completed" or "raised"
    pc,          \* position of the notebook's single thread of control
    it,          \* position of the submission loop in range(1, stop)
    inferences,  \* the list built by the submission loop
    pos,         \* position of the collection loop in inferences
    output_url,  \* get_output's parsed location while a call is in progress
    output,      \* the global `output`: last value assigned from get_output
    printed,     \* the lines printed by the collection loop of the running cell
    raised,      \* the exception that ended the last cell, if any
    nextId,      \* inference service: next InferenceId to hand out
    queue,       \* inference service: accepted requests not yet processed
    lost,        \* inference service: requests that failed, no output written
    s3,          \* object store: the objects present
    calls,       \* history: invoke_endpoint_async calls issued by the running cell
    returned,    \* history: the output locations those calls returned, in order
    polls,       \* history: get_output calls begun by the running cell
    got,         \* history: the values get_output returned to the running cell
    attempts,    \* history: reads made by the current get_output call (saturating)
    waited,      \* history: seconds slept by the current get_output call (saturating)
    lastRead,    \* history: outcome of the most recent read_s3_file call
    inflight,    \* history: operations issued and not yet returned or raised
    endpoint,    \* the endpoint: "InService" or "Deleted"
    scalableTargets,  \* Application Auto Scaling: the registered resource ids
    scalingPolicies,  \* Application Auto Scaling: the policies put, by resource id
    ran          \* the autoscaling and clean-up cells run so far

vars == <<stops, cell, cellState, pc, it, inferences, pos, output_url, output,
          printed, raised, nextId, queue, lost, s3, calls, returned, polls, got,
          attempts, waited, lastRead, inflight, endpoint, scalableTargets,
          scalingPolicies, ran>>

adminVars == <<endpoint, scalableTargets, scalingPolicies, ran>>

threadVars == <<cell, cellState, pc, it, inferences, pos, output_url, output,
                printed, raised, calls, returned, polls, got, attempts, waited,
                lastRead, inflight>>

serviceVars == <<nextId, queue, lost, s3>>

----------------------------------------------------------------------------
(* Bounds of the model and constants of the notebook.                      *)

\* Scaled-down stop values of the two bulk loops, used by Spec.
SmallStop == 3
LargeStop == 4
\* Saturation point of the history counter of read attempts.
MaxAttempts == 2

\* range(1,10) and range(1,1000): the loops as written.
RangeStart == 1
Stop10 == 10
Stop1000 == 1000
\* "Trigger 10 asynchronous requests", "Trigger 1000 asynchronous invocations".
Heading10 == 10
Heading1000 == 1000
\* time.sleep(2)
SleepSeconds == 2

Cells == {1, 2}
None == [none |-> TRUE]

----------------------------------------------------------------------------
(* Locations.  A location is the sequence of its segments, separators      *)
(* included, so that formatting and parsing are separate computations.     *)

s3_bucket == "default-bucket"
bucket_prefix == "async-inference-demo"

\* f"s3://{s3_bucket}/{bucket_prefix}/input/input.json"
input_s3_location ==
    <<"s3", ":", "/", "/", s3_bucket, "/", bucket_prefix, "/", "input", "/", "input.json">>

\* f"s3://{s3_bucket}/{bucket_prefix}/output"
S3OutputPath ==
    <<"s3", ":", "/", "/", s3_bucket, "/", bucket_prefix, "/", "output">>

\* The location the service hands back for InferenceId id.
OutputLocation(id) == S3OutputPath \o <<"/", ToString(id), ".out">>

\* The key under which the service stores the output of InferenceId id.
OutputKey(id) == <<bucket_prefix, "/", "output", "/", ToString(id), ".out">>

\* Index of the first "/" of s, Len(s)+1 when there is none.
RECURSIVE FirstSlash(_, _)
FirstSlash(s, k) ==
    IF k > Len(s) THEN k
    ELSE IF s[k] = "/" THEN k
    ELSE FirstSlash(s, k + 1)

\* urllib.parse.urlparse, for scheme://netloc/path locations.
urlparse(url) ==
    LET hasScheme == Len(url) >= 2 /\ url[2] = ":"
        rest      == IF hasScheme THEN SubSeq(url, 3, Len(url)) ELSE url
        hasNetloc == Len(rest) >= 2 /\ rest[1] = "/" /\ rest[2] = "/"
        afterSl   == IF hasNetloc THEN SubSeq(rest, 3, Len(rest)) ELSE rest
        cut       == IF hasNetloc THEN FirstSlash(afterSl, 1) ELSE 1
    IN  [scheme |-> IF hasScheme THEN url[1] ELSE "",
         netloc |-> IF hasNetloc THEN SubSeq(afterSl, 1, cut - 1) ELSE <<>>,
         path   |-> SubSeq(afterSl, cut, Len(afterSl))]

\* Mutant: the leading "/" of the path is kept in the key.
KeyOf_WholePath(url) == url.path

\* output_url.path[1:]
KeyOf(url) == IF url.path = <<>> THEN <<>> ELSE Tail(url.path)

\* range(start, stop)
range(start, stop) ==
    [k \in 1..(IF stop > start THEN stop - start ELSE 0) |-> start + k - 1]

----------------------------------------------------------------------------
(* The object store (Amazon S3) and the asynchronous inference service.    *)

\* The bucket as urlparse reports it: the netloc segments of a location.
BucketOf(name) == <<name>>

InputKey == <<bucket_prefix, "/", "input", "/", "input.json">>

Article == [kind |-> "article", id |-> 0]
Summary(id) == [kind |-> "summary", id |-> id]

InputObject == [bucket |-> BucketOf(s3_bucket), key |-> InputKey, body |-> Article]
OutputObject(id) ==
    [bucket |-> BucketOf(s3_bucket), key |-> OutputKey(id), body |-> Summary(id)]

NoSuchKey       == [type |-> "ClientError", code |-> "NoSuchKey"]
AccessDenied    == [type |-> "ClientError", code |-> "AccessDenied"]
ConnectionError == [type |-> "EndpointConnectionError", code |-> "none"]
Throttling      == [type |-> "ClientError", code |-> "ThrottlingException"]

Exists(bucket, key) == \E o \in s3 : o.bucket = bucket /\ o.key = key

\* What sm_session.read_s3_file(bucket, key_prefix) can do in the current state:
\* return the object's body, fail with NoSuchKey when there is no such object,
\* or fail for a reason that has nothing to do with the object's presence.
read_s3_file(bucket, key) ==
    (IF Exists(bucket, key)
       THEN {[ok |-> TRUE, value |-> o.body, error |-> None] :
                o \in {x \in s3 : x.bucket = bucket /\ x.key = key}}
       ELSE {[ok |-> FALSE, value |-> None, error |-> NoSuchKey]})
    \cup {[ok |-> FALSE, value |-> None, error |-> e] :
             e \in {AccessDenied, ConnectionError}}

\* No read made yet.
NoRead == [ok |-> FALSE, value |-> None, error |-> None]

\* The InferenceId the service gives to the request it accepts next: one it
\* has given to no request before.
NewInferenceId == nextId

\* The response of a successful invoke_endpoint_async call.
Response(id) == [InferenceId |-> id, OutputLocation |-> OutputLocation(id)]

\* The service processes a queued request and writes its output object.
ServiceComplete(id) ==
    /\ id \in queue
    /\ queue' = queue \ {id}
    /\ s3' = s3 \cup {OutputObject(id)}
    /\ UNCHANGED <<nextId, lost, stops, adminVars>>
    /\ UNCHANGED threadVars

\* The service fails a queued request: no output object is ever written.
ServiceLose(id) ==
    /\ id \in queue
    /\ queue' = queue \ {id}
    /\ lost' = lost \cup {id}
    /\ UNCHANGED <<nextId, s3, stops, adminVars>>
    /\ UNCHANGED threadVars

----------------------------------------------------------------------------
(* The bulk invocation cells.                                              *)

Loop == range(RangeStart, stops[cell])

Inc(n, max) == IF n < max THEN n + 1 ELSE max

\* Mutant: the cell does not start from an empty list.
RunCell_KeepsList(c) ==
    /\ pc = "idle"
    /\ c > cell
    /\ cellState[c] = "notrun"
    /\ ran \subseteq {"autoscaling"}
    /\ cell' = c
    /\ cellState' = [cellState EXCEPT ![c] = "running"]
    /\ pc' = "for_submit"
    /\ inferences' = inferences
    /\ it' = 1
    /\ calls' = 0
    /\ returned' = <<>>
    /\ polls' = 0
    /\ got' = <<>>
    /\ printed' = <<>>
    /\ raised' = None
    /\ pos' = 1
    /\ attempts' = 0
    /\ waited' = 0
    /\ lastRead' = NoRead
    /\ UNCHANGED <<output_url, output, inflight>>
    /\ UNCHANGED serviceVars
    /\ UNCHANGED <<stops, adminVars>>

\* The cell's first statement: inferences = []
RunCell(c) ==
    /\ pc = "idle"
    /\ c > cell
    /\ cellState[c] = "notrun"
    /\ ran \subseteq {"autoscaling"}
    /\ cell' = c
    /\ cellState' = [cellState EXCEPT ![c] = "running"]
    /\ pc' = "for_submit"
    /\ inferences' = <<>>
    /\ it' = 1
    /\ calls' = 0
    /\ returned' = <<>>
    /\ polls' = 0
    /\ got' = <<>>
    /\ printed' = <<>>
    /\ raised' = None
    /\ pos' = 1
    /\ attempts' = 0
    /\ waited' = 0
    /\ lastRead' = NoRead
    /\ UNCHANGED <<output_url, output, inflight>>
    /\ UNCHANGED serviceVars
    /\ UNCHANGED <<stops, adminVars>>

\* Mutant: the next call is issued without waiting for the previous one.
SubmitGuard_Pipelined == pc \in {"for_submit", "invoke"} /\ calls < Len(Loop)

\* for i in range(1, stop): ... sm_runtime.invoke_endpoint_async( is issued
SubmitGuard == pc = "for_submit" /\ it <= Len(Loop)

SubmitCall ==
    /\ SubmitGuard
    /\ pc' = "invoke"
    /\ calls' = calls + 1
    /\ inflight' = inflight \cup {[op |-> "submit", n |-> calls + 1]}
    /\ UNCHANGED <<cell, cellState, it, inferences, pos, output_url, output,
                   printed, raised, returned, polls, got, attempts, waited, lastRead>>
    /\ UNCHANGED serviceVars
    /\ UNCHANGED <<stops, adminVars>>

\* Mutant: the new pair is put in front of the list.
AddInference_Prepend(list, output_location) ==
    <<  <<input_s3_location, output_location>>  >> \o list

\* Mutant: the input location is recorded in both places of the pair.
AddInference_SameRef(list, output_location) ==
    list \o <<  <<input_s3_location, input_s3_location>>  >>

\* inferences += [(input_s3_location, output_location)]
AddInference(list, output_location) ==
    list \o <<  <<input_s3_location, output_location>>  >>

\* The call returns: the service queued the request and handed back its
\* output location; the loop body records the pair and the loop goes on.
SubmitReturn ==
    /\ pc = "invoke"
    /\ endpoint = "InService"
    /\ nextId' = NewInferenceId + 1
    /\ queue' = queue \cup {NewInferenceId}
    /\ LET response == Response(NewInferenceId)
           output_location == response.OutputLocation
       IN  /\ inferences' = AddInference(inferences, output_location)
           /\ returned' = Append(returned, output_location)
    /\ it' = it + 1
    /\ pc' = "for_submit"
    /\ inflight' = inflight \ {[op |-> "submit", n |-> calls]}
    /\ UNCHANGED <<cell, cellState, pos, output_url, output, printed, raised,
                   calls, polls, got, attempts, waited, lastRead>>
    /\ UNCHANGED <<lost, s3, stops, adminVars>>

\* Mutant: the failure is swallowed and the loop goes on with the next i.
SubmitRaise_Continue ==
    /\ pc = "invoke"
    /\ pc' = "for_submit"
    /\ it' = it + 1
    /\ inflight' = inflight \ {[op |-> "submit", n |-> calls]}
    /\ UNCHANGED <<cell, cellState, inferences, pos, output_url, output, printed,
                   raised, calls, returned, polls, got, attempts, waited, lastRead>>
    /\ UNCHANGED serviceVars
    /\ UNCHANGED <<stops, adminVars>>

\* Mutant: the failed call is issued again for the same i.
SubmitRaise_Retry ==
    /\ pc = "invoke"
    /\ pc' = "for_submit"
    /\ inflight' = inflight \ {[op |-> "submit", n |-> calls]}
    /\ UNCHANGED <<cell, cellState, it, inferences, pos, output_url, output,
                   printed, raised, calls, returned, polls, got, attempts, waited,
                   lastRead>>
    /\ UNCHANGED serviceVars
    /\ UNCHANGED <<stops, adminVars>>

\* The call fails: nothing catches the exception, the cell ends with it.
SubmitRaise ==
    /\ pc = "invoke"
    /\ pc' = "idle"
    /\ cellState' = [cellState EXCEPT ![cell] = "raised"]
    /\ raised' = Throttling
    /\ inflight' = inflight \ {[op |-> "submit", n |-> calls]}
    /\ UNCHANGED <<cell, it, inferences, pos, output_url, output, printed,
                   calls, returned, polls, got, attempts, waited, lastRead>>
    /\ UNCHANGED serviceVars
    /\ UNCHANGED <<stops, adminVars>>

\* Mutant: the collection loop starts as soon as one request is submitted.
SubmitLoopExit_Early ==
    /\ pc = "for_submit"
    /\ Len(inferences) >= 1
    /\ pc' = "for_collect"
    /\ pos' = 1
    /\ UNCHANGED <<cell, cellState, it, inferences, output_url, output, printed,
                   raised, calls, returned, polls, got, attempts, waited, lastRead,
                   inflight>>
    /\ UNCHANGED serviceVars
    /\ UNCHANGED <<stops, adminVars>>

\* range is exhausted: the print between the loops, then the second loop.
SubmitLoopExit ==
    /\ pc = "for_submit"
    /\ it > Len(Loop)
    /\ pc' = "for_collect"
    /\ pos' = 1
    /\ UNCHANGED <<cell, cellState, it, inferences, output_url, output, printed,
                   raised, calls, returned, polls, got, attempts, waited, lastRead,
                   inflight>>
    /\ UNCHANGED serviceVars
    /\ UNCHANGED <<stops, adminVars>>

----------------------------------------------------------------------------
(* get_output and the collection loop.                                     *)

\* Mutant: the tuple is unpacked the other way round, the input is polled.
PollTarget_Input(k) == inferences[k][1]

\* The location the collection loop hands to get_output for entry k.
PollTarget(k) == inferences[k][2]

\* for input_file, output_location in inferences: get_output(output_location)
\* is called; it parses the location and enters its while True loop.
CollectCall ==
    /\ pc = "for_collect"
    /\ pos <= Len(inferences)
    /\ output_url' = urlparse(PollTarget(pos))
    /\ pc' = "read"
    /\ polls' = polls + 1
    /\ attempts' = 0
    /\ waited' = 0
    /\ inflight' = inflight \cup {[op |-> "poll", n |-> polls + 1]}
    /\ UNCHANGED <<cell, cellState, it, inferences, pos, output, printed, raised,
                   calls, returned, got, lastRead>>
    /\ UNCHANGED serviceVars
    /\ UNCHANGED <<stops, adminVars>>

\* The outcomes of the read the current get_output call makes next.
CurrentRead == read_s3_file(output_url.netloc, KeyOf(output_url))

\* Mutant: every ClientError is retried, whatever its code.
Retried_AnyClientError(e) == e.type = "ClientError"

\* except ClientError as e: if e.response['Error']['Code'] == 'NoSuchKey'
Retried(e) == e.type = "ClientError" /\ e.code = "NoSuchKey"

\* The read succeeds: get_output returns the content, the loop body assigns
\* it to output, prints the pair, and the loop moves to the next entry.
ReadReturn ==
    /\ pc = "read"
    /\ \E r \in CurrentRead :
          /\ r.ok
          /\ lastRead' = r
          /\ output' = r.value
          /\ got' = Append(got, r.value)
    /\ attempts' = Inc(attempts, MaxAttempts)
    /\ printed' = Append(printed, inferences[pos])
    /\ pos' = pos + 1
    /\ pc' = "for_collect"
    /\ output_url' = None
    /\ inflight' = inflight \ {[op |-> "poll", n |-> polls]}
    /\ UNCHANGED <<cell, cellState, it, inferences, raised, calls, returned,
                   polls, waited>>
    /\ UNCHANGED serviceVars
    /\ UNCHANGED <<stops, adminVars>>

\* Mutant: the poll gives up once MaxAttempts reads have failed.
ReadRetry_Bounded ==
    /\ pc = "read"
    /\ \E r \in CurrentRead :
          /\ ~r.ok
          /\ Retried(r.error)
          /\ lastRead' = r
    /\ attempts' = Inc(attempts, MaxAttempts)
    /\ IF attempts + 1 >= MaxAttempts
         THEN /\ pc' = "idle"
              /\ cellState' = [cellState EXCEPT ![cell] = "raised"]
              /\ raised' = [type |-> "TimeoutError", code |-> "none"]
              /\ output_url' = None
              /\ inflight' = inflight \ {[op |-> "poll", n |-> polls]}
         ELSE /\ pc' = "sleep"
              /\ UNCHANGED <<cellState, raised, output_url, inflight>>
    /\ UNCHANGED <<cell, it, inferences, pos, output, printed, calls, returned,
                   polls, got, waited>>
    /\ UNCHANGED serviceVars
    /\ UNCHANGED <<stops, adminVars>>

\* Mutant: a missing object is reported as an empty result instead of retried.
ReadRetry_ReturnsNone ==
    /\ pc = "read"
    /\ \E r \in CurrentRead :
          /\ ~r.ok
          /\ Retried(r.error)
          /\ lastRead' = r
    /\ output' = None
    /\ got' = Append(got, None)
    /\ attempts' = Inc(attempts, MaxAttempts)
    /\ printed' = Append(printed, inferences[pos])
    /\ pos' = pos + 1
    /\ pc' = "for_collect"
    /\ output_url' = None
    /\ inflight' = inflight \ {[op |-> "poll", n |-> polls]}
    /\ UNCHANGED <<cell, cellState, it, inferences, raised, calls, returned,
                   polls, waited>>
    /\ UNCHANGED serviceVars
    /\ UNCHANGED <<stops, adminVars>>

\* Mutant: a failed attempt resets the result variable before sleeping.
ReadRetry_ClearsOutput ==
    /\ pc = "read"
    /\ \E r \in CurrentRead :
          /\ ~r.ok
          /\ Retried(r.error)
          /\ lastRead' = r
    /\ attempts' = Inc(attempts, MaxAttempts)
    /\ pc' = "sleep"
    /\ output' = None
    /\ UNCHANGED <<cell, cellState, it, inferences, pos, output_url,
                   printed, raised, calls, returned, polls, got, waited, inflight>>
    /\ UNCHANGED serviceVars
    /\ UNCHANGED <<stops, adminVars>>

\* Mutant: an entry whose output is missing is left for later and the
\* collection loop goes on with the next entry.
ReadRetry_NextEntry ==
    /\ pc = "read"
    /\ \E r \in CurrentRead :
          /\ ~r.ok
          /\ Retried(r.error)
          /\ lastRead' = r
    /\ attempts' = Inc(attempts, MaxAttempts)
    /\ pos' = pos + 1
    /\ pc' = "for_collect"
    /\ output_url' = None
    /\ inflight' = inflight \ {[op |-> "poll", n |-> polls]}
    /\ UNCHANGED <<cell, cellState, it, inferences, output, printed, raised,
                   calls, returned, polls, got, waited>>
    /\ UNCHANGED serviceVars
    /\ UNCHANGED <<stops, adminVars>>

\* The read fails with NoSuchKey: "waiting for output...", time.sleep(2).
ReadRetry ==
    /\ pc = "read"
    /\ \E r \in CurrentRead :
          /\ ~r.ok
          /\ Retried(r.error)
          /\ lastRead' = r
    /\ attempts' = Inc(attempts, MaxAttempts)
    /\ pc' = "sleep"
    /\ UNCHANGED <<cell, cellState, it, inferences, pos, output_url, output,
                   printed, raised, calls, returned, polls, got, waited, inflight>>
    /\ UNCHANGED serviceVars
    /\ UNCHANGED <<stops, adminVars>>

\* Mutant: any other failure is caught and reported as an empty result,
\* and the collection loop goes on with the next entry.
ReadRaise_Swallow ==
    /\ pc = "read"
    /\ \E r \in CurrentRead :
          /\ ~r.ok
          /\ ~Retried(r.error)
          /\ lastRead' = r
    /\ attempts' = Inc(attempts, MaxAttempts)
    /\ output' = None
    /\ got' = Append(got, None)
    /\ printed' = Append(printed, inferences[pos])
    /\ pos' = pos + 1
    /\ pc' = "for_collect"
    /\ output_url' = None
    /\ inflight' = inflight \ {[op |-> "poll", n |-> polls]}
    /\ UNCHANGED <<cell, cellState, it, inferences, raised, calls, returned,
                   polls, waited>>
    /\ UNCHANGED serviceVars
    /\ UNCHANGED <<stops, adminVars>>

\* The read fails otherwise: the exception leaves get_output and the cell.
ReadRaise ==
    /\ pc = "read"
    /\ \E r \in CurrentRead :
          /\ ~r.ok
          /\ ~Retried(r.error)
          /\ lastRead' = r
          /\ raised' = r.error
    /\ attempts' = Inc(attempts, MaxAttempts)
    /\ pc' = "idle"
    /\ cellState' = [cellState EXCEPT ![cell] = "raised"]
    /\ output_url' = None
    /\ inflight' = inflight \ {[op |-> "poll", n |-> polls]}
    /\ UNCHANGED <<cell, it, inferences, pos, output, printed, calls, returned,
                   polls, got, waited>>
    /\ UNCHANGED serviceVars
    /\ UNCHANGED <<stops, adminVars>>

\* time.sleep(2) is over: continue, back to the top of while True.
Wake ==
    /\ pc = "sleep"
    /\ pc' = "read"
    /\ waited' = IF waited < MaxAttempts * SleepSeconds
                   THEN waited + SleepSeconds ELSE waited
    /\ UNCHANGED <<cell, cellState, it, inferences, pos, output_url, output,
                   printed, raised, calls, returned, polls, got, attempts,
                   lastRead, inflight>>
    /\ UNCHANGED serviceVars
    /\ UNCHANGED <<stops, adminVars>>

\* inferences is exhausted: the cell ends normally.
CollectLoopExit ==
    /\ pc = "for_collect"
    /\ pos > Len(inferences)
    /\ pc' = "idle"
    /\ cellState' = [cellState EXCEPT ![cell] = "completed"]
    /\ UNCHANGED <<cell, it, inferences, pos, output_url, output, printed,
                   raised, calls, returned, polls, got, attempts, waited,
                   lastRead, inflight>>
    /\ UNCHANGED serviceVars
    /\ UNCHANGED <<stops, adminVars>>

----------------------------------------------------------------------------
(* The autoscaling cell and the clean-up cells.                            *)

endpoint_name == "async-summarization-inference-huggingface"

\* resource_id = 'endpoint/' + endpoint_name + '/variant/' + 'variant1'
resource_id == <<"endpoint", "/", endpoint_name, "/", "variant", "/", "variant1">>

\* "Enable autoscaling": client.register_scalable_target(ResourceId=resource_id,
\* ...) and client.put_scaling_policy(ResourceId=resource_id, ...).
EnableAutoscaling ==
    /\ pc = "idle"
    /\ cell < 2
    /\ ran = {}
    /\ endpoint = "InService"
    /\ scalableTargets' = scalableTargets \cup {resource_id}
    /\ scalingPolicies' = scalingPolicies \cup
                            {[name |-> "Invocations-ScalingPolicy", target |-> resource_id]}
    /\ ran' = ran \cup {"autoscaling"}
    /\ UNCHANGED <<endpoint, stops>>
    /\ UNCHANGED threadVars
    /\ UNCHANGED serviceVars

\* Mutant: the clean-up cell makes the call its comment shows, on the
\* Application Auto Scaling client and for the registered resource id.
Deregistered_Uncommented(targets) == targets \ {resource_id}

\* What the clean-up cell leaves of the registered targets.  Every line of the
\* cell is a comment ("# response = sm_client.deregister_scalable_target( ..."),
\* so running it calls nothing.
Deregistered(targets) == targets

\* The cell under "ensure you deregister the endpoint as a scalable target
\* before deleting the endpoint. To do this, run the following:"
DeregisterCell ==
    /\ pc = "idle"
    /\ "deregister" \notin ran
    /\ "delete" \notin ran
    /\ scalableTargets' = Deregistered(scalableTargets)
    /\ ran' = ran \cup {"deregister"}
    /\ UNCHANGED <<endpoint, scalingPolicies, stops>>
    /\ UNCHANGED threadVars
    /\ UNCHANGED serviceVars

\* sm_client.delete_endpoint(EndpointName=endpoint_name), run as the notebook
\* tells: after the deregistering cell when autoscaling was enabled.
DeleteEndpointCell ==
    /\ pc = "idle"
    /\ "delete" \notin ran
    /\ "autoscaling" \in ran => "deregister" \in ran
    /\ endpoint = "InService"
    /\ endpoint' = "Deleted"
    /\ ran' = ran \cup {"delete"}
    /\ UNCHANGED <<scalableTargets, scalingPolicies, stops>>
    /\ UNCHANGED threadVars
    /\ UNCHANGED serviceVars

----------------------------------------------------------------------------
(* Specifications.                                                         *)

\* The state before either bulk cell has run: the input payload uploaded,
\* the endpoint in service with nothing queued.
InitWith(s) ==
    /\ stops = s
    /\ cell = 0
    /\ cellState = [c \in Cells |-> "notrun"]
    /\ pc = "idle"
    /\ it = 1
    /\ inferences = <<>>
    /\ pos = 1
    /\ output_url = None
    /\ output = None
    /\ printed = <<>>
    /\ raised = None
    /\ nextId = 1
    /\ queue = {}
    /\ lost = {}
    /\ s3 = {InputObject}
    /\ calls = 0
    /\ returned = <<>>
    /\ polls = 0
    /\ got = <<>>
    /\ attempts = 0
    /\ waited = 0
    /\ lastRead = NoRead
    /\ inflight = {}
    /\ endpoint = "InService"
    /\ scalableTargets = {}
    /\ scalingPolicies = {}
    /\ ran = {}

Init == InitWith(<<SmallStop, LargeStop>>)

Thread ==
    \/ \E c \in Cells : RunCell(c)
    \/ SubmitCall
    \/ SubmitReturn
    \/ SubmitRaise
    \/ SubmitLoopExit
    \/ CollectCall
    \/ ReadReturn
    \/ ReadRetry
    \/ ReadRaise
    \/ Wake
    \/ CollectLoopExit

Service ==
    \/ \E id \in queue : ServiceComplete(id)
    \/ \E id \in queue : ServiceLose(id)

Next == Thread \/ Service

Spec == Init /\ [][Next]_vars

\* The statements of a running cell: the interpreter executes one after the
\* other without stopping, so a cell that can take a step sooner or later does.
CellStep ==
    \/ SubmitCall
    \/ SubmitReturn
    \/ SubmitRaise
    \/ SubmitLoopExit
    \/ CollectCall
    \/ ReadReturn
    \/ ReadRetry
    \/ ReadRaise
    \/ Wake
    \/ CollectLoopExit

FairSpec == Spec /\ WF_vars(CellStep)

\* The notebook to its end: the bulk cells with the autoscaling cell between
\* them and the clean-up cells after them.
NextNotebook ==
    \/ Next
    \/ EnableAutoscaling
    \/ DeregisterCell
    \/ DeleteEndpointCell

SpecNotebook == Init /\ [][NextNotebook]_vars

\* The submission loops with the stop values the notebook writes.
InitCount == InitWith(<<Stop10, Stop1000>>)

NextCount ==
    \/ \E c \in Cells : RunCell(c)
    \/ SubmitCall
    \/ SubmitReturn
    \/ SubmitLoopExit

SpecCount == InitCount /\ [][NextCount]_vars

----------------------------------------------------------------------------
(* Vocabulary of the properties.                                           *)

\* The InferenceIds the service has handed out so far.
Issued == 1..(nextId - 1)

\* The output object of entry k of inferences is in the store.
Stored(k) ==
    \E id \in Issued :
        inferences[k][2] = OutputLocation(id) /\ OutputObject(id) \in s3

\* A get_output call is in progress.
InPoll == pc \in {"read", "sleep"}

\* This step is a read_s3_file call ending; lastRead' is its outcome.
ReadStep == pc = "read" /\ pc' # "read"

----------------------------------------------------------------------------
(* C1: get_output returns only when the object its output_reference names  *)
(* is in the store, and the value it returns is that object's content; it  *)
(* never returns a value for an object that is absent.                     *)
C1_ReturnsStoredContent ==
    \A k \in 1..Len(got) :
        \E id \in Issued :
            /\ inferences[k][2] = OutputLocation(id)
            /\ OutputObject(id) \in s3
            /\ got[k] = OutputObject(id).body

\* get_output has returned a content after having found the object absent.
C1_Witness ==
    /\ pc = "for_collect"
    /\ Len(got) >= 1
    /\ waited >= SleepSeconds
    /\ lastRead.ok

(* C2: a read that fails with NoSuchKey is followed by a sleep of          *)
(* SleepSeconds and another read, however many attempts were made before;  *)
(* a read that fails for any other reason ends get_output and the cell     *)
(* with that error on that same attempt.                                   *)
C2_RetryOnlyNoSuchKey ==
    /\ [][(ReadStep /\ ~lastRead'.ok /\ lastRead'.error = NoSuchKey)
            => /\ pc' = "sleep"
               /\ output_url' = output_url
               /\ raised' = raised
               /\ cellState' = cellState
               /\ got' = got]_vars
    /\ [][(pc = "sleep" /\ pc' # "sleep")
            => /\ pc' = "read"
               /\ output_url' = output_url
               /\ (waited' = waited + SleepSeconds
                     \/ waited = MaxAttempts * SleepSeconds)]_vars
    /\ [][(ReadStep /\ ~lastRead'.ok /\ lastRead'.error # NoSuchKey)
            => /\ pc' = "idle"
               /\ raised' = lastRead'.error
               /\ cellState'[cell] = "raised"
               /\ polls' = polls
               /\ got' = got]_vars

\* A poll that slept and retried, then met another error, which ended the cell.
C2_Witness ==
    /\ pc = "idle"
    /\ cell # 0
    /\ cellState[cell] = "raised"
    /\ raised = AccessDenied
    /\ lastRead.error = AccessDenied
    /\ attempts = MaxAttempts
    /\ waited >= SleepSeconds

(* C3: while the polled object is absent and no read fails for a reason    *)
(* other than not-found, get_output neither returns nor raises: no number  *)
(* of attempts and no waiting time ends the loop.                          *)
C3_NoExitWhileAbsent ==
    [][(InPoll /\ ~Stored(pos)
          /\ ~(ReadStep /\ ~lastRead'.ok /\ lastRead'.error # NoSuchKey))
        => /\ InPoll'
           /\ got' = got
           /\ raised' = raised
           /\ cellState' = cellState
           /\ polls' = polls
           /\ pos' = pos]_vars

\* The service lost the request, the poll is still going on after more reads
\* and more seconds than the history counters count.
C3_Witness ==
    /\ pc = "read"
    /\ ~Stored(pos)
    /\ \E id \in lost : inferences[pos][2] = OutputLocation(id)
    /\ attempts = MaxAttempts
    /\ waited = MaxAttempts * SleepSeconds

(* C4: the cell headed "Trigger 10 asynchronous requests" issues exactly   *)
(* 10 submissions and holds 10 pairs when its submission phase ends; the   *)
(* cell headed "Trigger 1000 asynchronous invocations" issues exactly 1000 *)
(* and holds 1000 pairs.                                                   *)
C4_HeadingCount ==
    pc = "for_collect" =>
        /\ cell = 1 => (calls = Heading10 /\ Len(inferences) = Heading10)
        /\ cell = 2 => (calls = Heading1000 /\ Len(inferences) = Heading1000)

(* C5: when a submission call fails the cell ends there with the failure:  *)
(* no later submission is issued, get_output is called for none of the     *)
(* entries already submitted, and nothing is collected.                    *)
SubmissionFails == pc = "invoke" /\ pc' # "invoke" /\ returned' = returned

C5_SubmissionFailureAborts ==
    /\ [][SubmissionFails
            => /\ pc' = "idle"
               /\ cellState'[cell] = "raised"
               /\ raised' = Throttling
               /\ calls' = calls
               /\ inferences' = inferences
               /\ polls' = 0
               /\ got' = <<>>
               /\ printed' = <<>>
               /\ inflight' = {}]_vars
    /\ [][(cell # 0 /\ cellState[cell] = "raised" /\ cell' = cell)
            => /\ calls' = calls
               /\ polls' = polls
               /\ got' = got
               /\ printed' = printed
               /\ raised' = raised]_vars

\* The third submission failed after two had been accepted, one of them
\* already answered by the service.
C5_Witness ==
    /\ pc = "idle"
    /\ cell # 0
    /\ cellState[cell] = "raised"
    /\ raised = Throttling
    /\ calls = 3
    /\ Len(inferences) = 2
    /\ Stored(1)
    /\ polls = 0

(* C6 as stated: when the collection phase is over, every content that     *)
(* get_output returned is still held by the notebook, none discarded or    *)
(* overwritten by the content of a later entry.  The only place the cell   *)
(* keeps a content in is the variable output.                              *)
CollectionOver == pc = "idle" /\ cell # 0 /\ cellState[cell] = "completed"

C6_AllContentsRecorded ==
    CollectionOver => \A k \in 1..Len(got) : got[k] = output

(* C6, amended: when the collection phase is over, get_output has been     *)
(* called once for every pair of inferences, in order, and has returned    *)
(* the content of that pair's output object; the pair (input location,     *)
(* output location) of every entry has been printed in submission order;   *)
(* of the contents only the last is held, in output, each earlier one      *)
(* having been overwritten by the next.                                    *)
C6_OnlyLastContentKept ==
    CollectionOver =>
        /\ polls = Len(inferences)
        /\ Len(got) = Len(inferences)
        /\ printed = inferences
        /\ \A k \in 1..Len(got) :
              \E id \in Issued :
                  /\ inferences[k] = <<input_s3_location, OutputLocation(id)>>
                  /\ got[k] = Summary(id)
        /\ Len(got) >= 1 => output = got[Len(got)]
        /\ \A k \in 1..(Len(got) - 1) : got[k] # output

\* A cell has completed with three entries collected.
C6_Witness ==
    /\ CollectionOver
    /\ Len(got) = 3
    /\ output = got[3]

(* C7: at every point of a cell, inferences is the list of the pairs       *)
(* (input location, output location) of the submissions that have returned *)
(* so far, in the order of their return; within a cell the list only grows *)
(* at its end, also while the service completes requests in any order.     *)
C7_SubmissionOrderKept ==
    /\ [](/\ Len(inferences) = Len(returned)
          /\ \A k \in 1..Len(returned) :
                inferences[k] = <<input_s3_location, returned[k]>>)
    /\ [][cell' = cell
            => \/ inferences' = inferences
               \/ /\ Len(inferences') = Len(inferences) + 1
                  /\ SubSeq(inferences', 1, Len(inferences)) = inferences]_vars

\* Three pairs recorded, the service done with the third and the second
\* but not with the first.
C7_Witness ==
    /\ Len(inferences) = 3
    /\ Stored(3)
    /\ Stored(2)
    /\ ~Stored(1)

(* C8: if no submission of a cell fails, no read fails for a reason other  *)
(* than not-found, and the output object of every request the service      *)
(* accepted eventually appears in the store, then a cell that has started  *)
(* eventually ends normally with a content obtained for each of its        *)
(* submitted requests.                                                     *)
\* Every request accepted so far has its output object in the store.  Accepted
\* requests and stored objects only accumulate, so this holding again and again
\* is every accepted request's object appearing sooner or later.
AllStored == \A id \in Issued : OutputObject(id) \in s3

Collected(c) ==
    /\ cell = c
    /\ cellState[c] = "completed"
    /\ Len(inferences) = Len(range(RangeStart, stops[c]))
    /\ Len(got) = Len(inferences)
    /\ \A k \in 1..Len(got) : Stored(k) /\ got[k].kind = "summary"

C8_BatchTerminates ==
    \A c \in Cells :
        ( /\ [](cellState[c] # "raised")
          /\ []<>AllStored )
        => [](cellState[c] = "running" => <>Collected(c))

\* The second cell has ended normally after a poll that had to wait.
C8_Witness ==
    /\ Collected(2)
    /\ lost = {}
    /\ waited >= SleepSeconds

(* C9: in a cell no get_output call begins before every submission call of *)
(* the loop has returned, and once a get_output call has begun the cell    *)
(* issues no further submission call.                                      *)
C9_TwoPhases ==
    /\ [](polls >= 1 =>
            /\ calls = Len(Loop)
            /\ Len(returned) = Len(Loop)
            /\ \A o \in inflight : o.op # "submit")
    /\ [][(polls >= 1 /\ cell' = cell) => calls' = calls /\ returned' = returned]_vars

\* The first poll of a cell of three submissions is in progress.
C9_Witness ==
    /\ pc = "read"
    /\ polls = 1
    /\ calls = 3

(* C10: at most one operation (a submission call or a get_output call) is  *)
(* in progress at any moment; the submission call in progress is the one   *)
(* after the last that returned, and the get_output call in progress is    *)
(* for the entry after the last whose content was returned.                *)
C10_OneAtATime ==
    /\ Cardinality(inflight) <= 1
    /\ \A o \in inflight :
          /\ o.op = "submit" => (pc = "invoke" /\ o.n = Len(returned) + 1)
          /\ o.op = "poll"   => (InPoll /\ o.n = Len(got) + 1 /\ o.n = pos)
    /\ pc = "invoke" => inflight = {[op |-> "submit", n |-> calls]}
    /\ InPoll => inflight = {[op |-> "poll", n |-> polls]}

\* The second poll of a cell is in progress, the third submission was the last.
C10_Witness ==
    /\ pc = "sleep"
    /\ inflight = {[op |-> "poll", n |-> 2]}
    /\ calls = 3

(* C11: every iteration of the submission loop causes exactly one          *)
(* invoke_endpoint_async call; a call that failed is not issued again, and *)
(* a call that succeeded yields exactly one pair, whose output location is *)
(* the one the service handed back for that call.                          *)
SubmissionFailed == cell # 0 /\ cellState[cell] = "raised" /\ raised = Throttling

\* The InferenceId the service gave to the k-th accepted request of the cell.
IdOfEntry(k) == nextId - Len(returned) + k - 1

C11_OneCallPerRequest ==
    cell # 0 =>
        /\ calls = (it - 1) + (IF pc = "invoke" \/ SubmissionFailed THEN 1 ELSE 0)
        /\ Len(inferences) = it - 1
        /\ Len(returned) = it - 1
        /\ \A k \in 1..Len(inferences) :
              /\ IdOfEntry(k) \in Issued
              /\ inferences[k] = <<input_s3_location, OutputLocation(IdOfEntry(k))>>
              /\ inferences[k][2] = returned[k]

\* The second cell made its three calls after the first cell had ended with
\* a failed call.
C11_Witness ==
    /\ cell = 2
    /\ cellState[1] = "raised"
    /\ nextId = 5
    /\ pc = "for_collect"
    /\ calls = 3
    /\ Len(inferences) = 3

(* C12: a read made while the object is absent, and the sleep after it,    *)
(* change nothing but the time elapsed: the store, the service and the     *)
(* notebook's variables, the list inferences among them, stay as they are; *)
(* and the content get_output returns in the end is the content of the     *)
(* entry's output object, however many such reads came before.             *)
PollFrame ==
    <<s3, queue, lost, nextId, inferences, it, pos, output, output_url, printed,
      raised, cell, cellState, calls, returned, polls, got, inflight>>

C12_IdempotentPolling ==
    /\ [][(ReadStep /\ ~lastRead'.ok /\ lastRead'.error = NoSuchKey)
            => (PollFrame' = PollFrame /\ waited' = waited)]_vars
    /\ [][(pc = "sleep" /\ pc' # "sleep") => PollFrame' = PollFrame]_vars
    /\ [](\A k \in 1..Len(got) : got[k] = Summary(IdOfEntry(k)))

\* The second content of a cell came back after the longest wait counted,
\* with the first content still in place before it.
C12_Witness ==
    /\ pc = "for_collect"
    /\ Len(got) = 2
    /\ got[1] # got[2]
    /\ output = got[2]
    /\ waited = MaxAttempts * SleepSeconds
    /\ lastRead.ok

(* C13: when get_output for entry i raises an error other than not-found   *)
(* during the collection phase, the cell ends with that very error: it is  *)
(* not turned into a result, entry i is not printed, and get_output is     *)
(* never called for the entries after i.                                   *)
PollFailed ==
    cell # 0 /\ cellState[cell] = "raised" /\ raised \in {AccessDenied, ConnectionError}

C13_PollFailureAborts ==
    /\ [][(ReadStep /\ ~lastRead'.ok /\ ~(lastRead'.error = NoSuchKey))
            => /\ PollFailed'
               /\ raised' = lastRead'.error
               /\ pc' = "idle"
               /\ polls' = pos
               /\ got' = got
               /\ printed' = printed
               /\ output' = output
               /\ inflight' = {}]_vars
    /\ [](PollFailed =>
            /\ pc = "idle"
            /\ polls = Len(got) + 1
            /\ Len(printed) = Len(got)
            /\ polls <= Len(inferences))
    /\ [][(PollFailed /\ cell' = cell)
            => (polls' = polls /\ got' = got /\ printed' = printed)]_vars

\* The poll of the first of three entries raised a connection error while
\* the outputs of the two entries after it were already stored.
C13_Witness ==
    /\ PollFailed
    /\ raised = ConnectionError
    /\ Len(inferences) = 3
    /\ polls = 1
    /\ Stored(2)
    /\ Stored(3)

(* C14: once the notebook has registered the endpoint as a scalable        *)
(* target, delete_endpoint is reached only after the endpoint has been     *)
(* deregistered: the endpoint is never deleted while that registration is  *)
(* still in place.                                                         *)
C14_DeregisteredBeforeDelete ==
    endpoint = "Deleted" => resource_id \notin scalableTargets

(* C15: the output location of every pair a cell has recorded differs from *)
(* the pair's input location and from the output location of every other   *)
(* pair of the cell, although all pairs have the same input location.      *)
C15_DistinctReferences ==
    \A k \in 1..Len(inferences) :
        /\ inferences[k][1] = input_s3_location
        /\ inferences[k][2] # inferences[k][1]
        /\ urlparse(inferences[k][2]).netloc = urlparse(inferences[k][1]).netloc
        /\ KeyOf(urlparse(inferences[k][2])) # KeyOf(urlparse(inferences[k][1]))
        /\ \A j \in 1..Len(inferences) :
              j # k => inferences[j][2] # inferences[k][2]

\* The second cell holds three pairs after the first cell completed with two.
C15_Witness ==
    /\ cell = 2
    /\ cellState[1] = "completed"
    /\ Len(inferences) = 3
    /\ nextId = 6

EarlierLocations == {OutputLocation(id) : id \in 1..(nextId - Len(returned) - 1)}

C17_PollTargets ==
    /\ polls <= Len(returned)
    /\ Len(got) <= polls
    /\ polls <= Len(got) + 1
    /\ InPoll =>
          /\ polls = Len(got) + 1
          /\ output_url = urlparse(returned[polls])
          /\ \A loc \in EarlierLocations : output_url # urlparse(loc)
    /\ \A k \in 1..Len(got) : got[k] = OutputObject(IdOfEntry(k)).body
    /\ CollectionOver =>
          /\ polls = Len(returned)
          /\ Len(got) = Len(returned)
          /\ Len(returned) = Len(Loop)
          /\ \A j, k \in 1..Len(got) : j # k => got[j] # got[k]

\* The second cell completed its three polls after the first cell had
\* completed its own.
C17_Witness ==
    /\ CollectionOver
    /\ cell = 2
    /\ cellState[1] = "completed"
    /\ polls = 3
    /\ EarlierLocations # {}

====
